---- MODULE Spec2Model ----
(***************************************************************************)
(* Model of petstore_sdk/models/base.py: BaseModel (scalar validation,     *)
(* object and list coercion) and OneOfBaseModel (resolution of a oneOf     *)
(* value against an ordered candidate map held in the class attribute      *)
(* class_list).                                                            *)
(*                                                                         *)
(* Python values are records with a field "kind".  Objects that have an    *)
(* identity (dict, list, model instance) carry an "id"; two objects are    *)
(* the same Python object iff the records are equal, id included.          *)
(* Strings are sequences of one-character strings.                         *)
(***************************************************************************)
EXTENDS Integers, Sequences, FiniteSets, TLC

VARIABLES
    class_list,   \* OneOfBaseModel.class_list: ordered map, a sequence of [key, val]
    heap,         \* number of object ids handed out so far
    pc,           \* per thread: position in the running call
    call,         \* per thread: the call being run, [op, input, arg]
    i,            \* per thread: index of the current element in _define_list's loop
    result,       \* per thread: _define_list's local "result"
    cands,        \* per thread: the view cls.class_list.values() the for loop iterates
    k,            \* per thread: position of the for loop in that view
    tried,        \* per thread: the candidates the current return_one_of has tried
    ret,          \* per thread: the value the call returned
    err           \* per thread: the exception the call raised

vars == <<class_list, heap, pc, call, i, result, cands, k, tried, ret, err>>

\* Longest input sequence (list or string) the inputs are drawn from.
MaxLen == 2

(***************************************************************************)
(* Values                                                                  *)
(***************************************************************************)
None == [kind |-> "none"]
StrV(s) == [kind |-> "prim", ty |-> "str", v |-> s]
IntV(s) == [kind |-> "prim", ty |-> "int", v |-> s]
BytesV(s) == [kind |-> "prim", ty |-> "bytes", v |-> s]
EnumV(c, s) == [kind |-> "enum", cls |-> c, v |-> s]
Dict(m) == [kind |-> "dict", id |-> 0, m |-> m]
Inst(n, c, f) == [kind |-> "inst", id |-> n, cls |-> c, f |-> f]
ListV(n, items) == [kind |-> "list", id |-> n, items |-> items]

NoError == [type |-> "", what |-> "", names |-> <<>>]
ValueError(what, names) == [type |-> "ValueError", what |-> what, names |-> names]
\* Whatever a generated constructor, _unmap or _map raises (TypeError, KeyError, ...)
OtherError(what) == [type |-> "Exception", what |-> what, names |-> <<>>]

HasId(v) == v.kind \in {"dict", "inst", "list"}
Stamp(v, n) == IF HasId(v) THEN [v EXCEPT !.id = n] ELSE v

RECURSIVE SeqsUpTo(_, _)
SeqsUpTo(S, n) ==
    IF n = 0 THEN {<<>>}
    ELSE LET shorter == SeqsUpTo(S, n - 1)
         IN shorter \cup {Append(s, x) : s \in {q \in shorter : Len(q) = n - 1}, x \in S}

(***************************************************************************)
(* Types: a model class, or a subscripted generic (typing.List[T], ...)    *)
(***************************************************************************)
Class(c) == [kind |-> "class", cls |-> c, origin |-> "", args |-> <<>>]
ListOf(c) == [kind |-> "generic", cls |-> "", origin |-> "list", args |-> <<c>>]
DictOf(c) == [kind |-> "generic", cls |-> "", origin |-> "dict", args |-> <<"str", c>>]
Union(args) == [kind |-> "union", name |-> "", args |-> args]
EnumClass(name, members) == [kind |-> "enumcls", name |-> name, args |-> members]

\* typing.get_origin / typing.get_args
GetOrigin(ty) == ty.origin
GetArgs(ty) == ty.args

(***************************************************************************)
(* The generated model classes (not part of base.py).  params are the      *)
(* constructor's parameters in order, the first nreq of them required;     *)
(* listField, when set, is a field the constructor passes through          *)
(* self._define_list(value, listUnion); hasMap tells whether the class has *)
(* the to-mapping projection _map.                                         *)
(***************************************************************************)
PlainClass(name, parent, params, nreq) ==
    [name |-> name, parent |-> parent, params |-> params, nreq |-> nreq,
     listField |-> "", listUnion |-> Union(<<>>), hasMap |-> TRUE]

ClassDef(c) ==
    CASE c = "A"  -> PlainClass("A", "", <<"x", "y">>, 2)
      [] c = "B"  -> PlainClass("B", "A", <<"x", "y", "z">>, 2)
      [] c = "C"  -> PlainClass("C", "", <<"x">>, 1)
      [] c = "Cx" -> PlainClass("C", "", <<"x", "y", "z">>, 0)
      [] c = "M"  -> [PlainClass("M", "", <<"y">>, 1) EXCEPT !.hasMap = FALSE]
      [] c = "N"  -> [PlainClass("N", "", <<"x", "items">>, 1) EXCEPT
                         !.listField = "items",
                         !.listUnion = Union(<<Class("C"), Class("M")>>)]
      [] c = "P"  -> PlainClass("P", "", <<"x", "items">>, 1)

\* arg.__name__
TypeName(ty) ==
    IF ty.kind = "class" THEN ClassDef(ty.cls).name
    ELSE IF ty.origin = "list" THEN "List"
    ELSE "Dict"

\* isinstance(value, c) for a model class c
IsInstance(value, c) ==
    /\ value.kind = "inst"
    /\ \/ value.cls = c
       \/ ClassDef(value.cls).parent = c

(***************************************************************************)
(* Outcomes of a call: a returned value or a raised exception, and for the *)
(* calls that can reach _define_list the value of class_list afterwards.   *)
(***************************************************************************)
Returned(v) == [raised |-> FALSE, val |-> v, err |-> NoError]
Raised(e) == [raised |-> TRUE, val |-> None, err |-> e]
ReturnedCl(v, cl) == [raised |-> FALSE, val |-> v, err |-> NoError, cl |-> cl]
RaisedCl(e, cl) == [raised |-> TRUE, val |-> None, err |-> e, cl |-> cl]

(***************************************************************************)
(* BaseModel._pattern_matching                                             *)
(***************************************************************************)
\* re.match(pattern, value) for patterns made of literal characters, "."
\* (any character) and a final "$": a match anchored at the start only.
RECURSIVE ReMatch(_, _)
ReMatch(pattern, value) ==
    IF pattern = <<>> THEN TRUE
    ELSE IF Head(pattern) = "$" THEN value = <<>> /\ ReMatch(Tail(pattern), value)
    ELSE /\ value # <<>>
         /\ Head(pattern) \in {".", Head(value)}
         /\ ReMatch(Tail(pattern), Tail(value))

\* _pattern_matching without its test for None
PatternMatchingNoNullCheck(value, pattern, variable_name) ==
    IF value.kind = "prim" /\ ReMatch(pattern, value.v) THEN Returned(value)
    ELSE Raised(ValueError("pattern", <<variable_name>>))

PatternMatching(value, pattern, variable_name) ==
    IF value = None THEN Returned(None)
    ELSE IF ReMatch(pattern, value.v) THEN Returned(value)
    ELSE Raised(ValueError("pattern", <<variable_name>>))

(***************************************************************************)
(* BaseModel._enum_matching                                                *)
(***************************************************************************)
InList(x, list) == \E j \in 1..Len(list) : list[j] = x

\* _enum_matching returning the normalised string, not the value
EnumMatchingReturnsStr(value, enum_values, variable_name) ==
    IF value = None THEN Returned(None)
    ELSE LET str_value == IF value.kind = "enum" THEN StrV(value.v) ELSE value
         IN IF InList(str_value, enum_values) THEN Returned(str_value)
            ELSE Raised(ValueError("enum", <<variable_name>>))

EnumMatching(value, enum_values, variable_name) ==
    IF value = None THEN Returned(None)
    ELSE LET str_value == IF value.kind = "enum" THEN StrV(value.v) ELSE value
         IN IF InList(str_value, enum_values) THEN Returned(value)
            ELSE Raised(ValueError("enum", <<variable_name>>))

(***************************************************************************)
(* The candidate map: an insertion-ordered dict, as a sequence of entries  *)
(***************************************************************************)
DictKeys(d) == [j \in 1..Len(d) |-> d[j].key]
DictValues(d) == [j \in 1..Len(d) |-> d[j].val]
\* d[key] = val: a new key goes last, an existing key keeps its place
DictSet(d, key, val) ==
    IF \E j \in 1..Len(d) : d[j].key = key
    THEN [j \in 1..Len(d) |-> IF d[j].key = key THEN [key |-> key, val |-> val] ELSE d[j]]
    ELSE Append(d, [key |-> key, val |-> val])

\* BaseModel.__create_class_map
RECURSIVE CreateClassMapFrom(_, _, _)
CreateClassMapFrom(args, n, class_map) ==
    IF n > Len(args) THEN class_map
    ELSE CreateClassMapFrom(args, n + 1,
            IF TypeName(args[n]) # "" THEN DictSet(class_map, TypeName(args[n]), args[n])
            ELSE class_map)

CreateClassMap(union_type) == CreateClassMapFrom(union_type.args, 1, <<>>)

\* The guard classes the generator derives from OneOfBaseModel, each with a
\* class_list of its own.
GuardClassList(cls) ==
    CASE cls = "GuardEmpty" -> <<>>
      [] cls = "GuardLists" ->
            <<[key |-> "List[B]", val |-> ListOf("B")],
              [key |-> "Dict[str, A]", val |-> DictOf("A")],
              [key |-> "List[C]", val |-> ListOf("C")],
              [key |-> "P", val |-> Class("P")],
              [key |-> "A", val |-> Class("A")]>>
      [] cls = "GuardModels" ->
            <<[key |-> "M", val |-> Class("M")],
              [key |-> "C", val |-> Class("C")],
              [key |-> "B", val |-> Class("B")],
              [key |-> "A", val |-> Class("A")]>>

\* cls.class_list, where cl is the value of OneOfBaseModel.class_list
ClassListOf(cls, cl) == IF cls = "OneOfBaseModel" THEN cl ELSE GuardClassList(cls)

(***************************************************************************)
(* The generated classes' mapping constructor (_unmap, then __init__) and  *)
(* to-mapping projection (_map).  A constructor with a listField calls     *)
(* BaseModel._define_list, which is why these operators carry class_list   *)
(* (cl) through and are recursive with the resolver below.  nid is the id  *)
(* given to the objects the call creates.                                  *)
(***************************************************************************)
RECURSIVE Unmap(_, _, _, _)
RECURSIVE Construct(_, _, _, _)
RECURSIVE UnmapAll(_, _, _, _, _, _)
RECURSIVE GetListInstance(_, _, _, _, _)
RECURSIVE TryOne(_, _, _, _)
RECURSIVE ResolveFrom(_, _, _, _, _, _)
RECURSIVE ReturnOneOf(_, _, _, _)
RECURSIVE DefineListItem(_, _, _, _)
RECURSIVE DefineListFrom(_, _, _, _, _, _)
RECURSIVE DefineList(_, _, _, _)

Fields(c) == {ClassDef(c).params[j] : j \in 1..Len(ClassDef(c).params)}
Required(c) == {ClassDef(c).params[j] : j \in 1..ClassDef(c).nreq}

\* The instance once its listField went through _define_list with outcome r
Constructed(c, fields, r, nid) ==
    IF r.raised THEN RaisedCl(r.err, r.cl)
    ELSE ReturnedCl(Inst(nid, c, [fields EXCEPT ![ClassDef(c).listField] = r.val]), r.cl)

\* cls.__init__(**fields): the fields are stored, the listField through _define_list
Construct(c, fields, cl, nid) ==
    IF ClassDef(c).listField = "" THEN ReturnedCl(Inst(nid, c, fields), cl)
    ELSE Constructed(c, fields,
            DefineList(fields[ClassDef(c).listField], ClassDef(c).listUnion, cl, nid), nid)

\* cls._unmap(raw): fails on anything but a mapping and on a missing required
\* field; keys the class does not declare are dropped, absent fields are None
Unmap(c, raw, cl, nid) ==
    IF raw.kind # "dict" THEN RaisedCl(OtherError("unmap"), cl)
    ELSE IF ~(Required(c) \subseteq DOMAIN raw.m) THEN RaisedCl(OtherError("unmap"), cl)
    ELSE Construct(c, [f \in Fields(c) |-> IF f \in DOMAIN raw.m THEN raw.m[f] ELSE None],
                   cl, nid)

\* cls(item): the item becomes the first constructor parameter
DirectConstruct(c, item, cl, nid) ==
    IF Len(ClassDef(c).params) = 0 \/ ClassDef(c).nreq > 1
    THEN RaisedCl(OtherError("init"), cl)
    ELSE Construct(c, [f \in Fields(c) |-> IF f = ClassDef(c).params[1] THEN item ELSE None],
                   cl, nid)

NonNull(m) == {f \in DOMAIN m : m[f] # None}

(***************************************************************************)
(* OneOfBaseModel._check_params                                            *)
(***************************************************************************)
\* _check_params counting every declared field, null or not
CheckParamsAllFields(raw_input, instance) ==
    IF ~ClassDef(instance.cls).hasMap THEN Raised(OtherError("map"))
    ELSE Returned(Cardinality(NonNull(raw_input.m)) = Cardinality(DOMAIN instance.f))

CheckParams(raw_input, instance) ==
    IF ~ClassDef(instance.cls).hasMap THEN Raised(OtherError("map"))
    ELSE Returned(Cardinality(NonNull(raw_input.m)) = Cardinality(NonNull(instance.f)))

(***************************************************************************)
(* OneOfBaseModel._get_list_instance                                       *)
(***************************************************************************)
\* The comprehension after element n was unmapped with outcome u
UnmapAllNext(inner_type, items, n, built, u, nid) ==
    IF u.raised THEN RaisedCl(u.err, u.cl)
    ELSE UnmapAll(inner_type, items, n + 1, Append(built, u.val), u.cl, nid)

\* [inner_type._unmap(item) for item in input_data]
UnmapAll(inner_type, items, n, built, cl, nid) ==
    IF n > Len(items) THEN ReturnedCl(ListV(nid, built), cl)
    ELSE UnmapAllNext(inner_type, items, n, built, Unmap(inner_type, items[n], cl, nid), nid)

\* isinstance(input_data, origin) for origin list or dict
IsInstanceOfOrigin(input_data, origin) == input_data.kind = origin

\* _get_list_instance with any() in place of all()
GetListInstanceAny(input_data, class_constructor, origin, cl, nid) ==
    IF IsInstanceOfOrigin(input_data, origin)
       /\ Len(GetArgs(class_constructor)) = 1 /\ input_data.kind = "list"
    THEN IF \E n \in 1..Len(input_data.items) :
                IsInstance(input_data.items[n], GetArgs(class_constructor)[1])
         THEN ReturnedCl(input_data, cl)
         ELSE UnmapAll(GetArgs(class_constructor)[1], input_data.items, 1, <<>>, cl, nid)
    ELSE ReturnedCl(None, cl)

GetListInstance(input_data, class_constructor, origin, cl, nid) ==
    IF IsInstanceOfOrigin(input_data, origin)
       /\ Len(GetArgs(class_constructor)) = 1 /\ input_data.kind = "list"
    THEN IF \A n \in 1..Len(input_data.items) :
                IsInstance(input_data.items[n], GetArgs(class_constructor)[1])
         THEN ReturnedCl(input_data, cl)
         ELSE UnmapAll(GetArgs(class_constructor)[1], input_data.items, 1, <<>>, cl, nid)
    ELSE ReturnedCl(None, cl)

(***************************************************************************)
(* OneOfBaseModel.return_one_of: one turn of the for loop.  res is         *)
(* "return" (the call returns val), "next" (the loop goes on) or "raise"   *)
(* (an exception leaves the call).                                         *)
(***************************************************************************)
LoopReturn(v, cl) == [res |-> "return", val |-> v, err |-> NoError, cl |-> cl]
LoopNext(cl) == [res |-> "next", val |-> None, err |-> NoError, cl |-> cl]
LoopRaise(e, cl) == [res |-> "raise", val |-> None, err |-> e, cl |-> cl]

\* A handler that lets the exception through
OnExceptionReraise(e, cl) == LoopRaise(e, cl)

\* except Exception: pass
OnException(e, cl) == LoopNext(cl)

\* Returning a copy of the input in place of the input
ReturnInstanceCopy(input_data, cl, nid) == LoopReturn([input_data EXCEPT !.id = nid], cl)

\* return input_data (the input is already an instance of the candidate)
ReturnInstance(input_data, cl, nid) == LoopReturn(input_data, cl)

\* The type-hint branch, list_instance being what _get_list_instance gave
TryList(list_instance) ==
    IF list_instance.raised THEN OnException(list_instance.err, list_instance.cl)
    ELSE IF list_instance.val # None THEN LoopReturn(list_instance.val, list_instance.cl)
    ELSE LoopNext(list_instance.cl)

\* The field-count check of a constructed instance
TryChecked(instance, ok) ==
    IF ok.raised THEN OnException(ok.err, instance.cl)
    ELSE IF ok.val THEN LoopReturn(instance.val, instance.cl)
    ELSE LoopNext(instance.cl)

\* The mapping branch, instance being what class_constructor._unmap gave
TryUnmapped(input_data, instance) ==
    IF instance.raised THEN OnException(instance.err, instance.cl)
    ELSE TryChecked(instance, CheckParams(input_data, instance.val))

TryOne(class_constructor, input_data, cl, nid) ==
    IF GetOrigin(class_constructor) # "" /\ input_data.kind = "list"
    THEN TryList(GetListInstance(input_data, class_constructor,
                                 GetOrigin(class_constructor), cl, nid))
    ELSE IF class_constructor.kind = "generic"
         \* isinstance(x, List[T]) raises TypeError
         THEN OnException(OtherError("isinstance"), cl)
    ELSE IF IsInstance(input_data, class_constructor.cls)
         THEN ReturnInstance(input_data, cl, nid)
    ELSE IF input_data.kind = "dict"
         THEN TryUnmapped(input_data, Unmap(class_constructor.cls, input_data, cl, nid))
    ELSE LoopNext(cl)

\* isinstance(input_data, (str, float, int, bool))
IsPrimitive(input_data) ==
    input_data.kind = "prim" /\ input_data.ty \in {"str", "float", "int", "bool"}

\* The loop after candidate n gave r
ResolveNext(cs, n, input_data, cls, r, nid) ==
    CASE r.res = "return" -> ReturnedCl(r.val, r.cl)
      [] r.res = "raise" -> RaisedCl(r.err, r.cl)
      [] r.res = "next" -> ResolveFrom(cs, n + 1, input_data, cls, r.cl, nid)

\* The for loop from position n of the view cs of cls.class_list.values(), and
\* the final raise, which reads cls.class_list again
ResolveFrom(cs, n, input_data, cls, cl, nid) ==
    IF n > Len(cs)
    THEN RaisedCl(ValueError("one_of", DictKeys(ClassListOf(cls, cl))), cl)
    ELSE ResolveNext(cs, n, input_data, cls, TryOne(cs[n], input_data, cl, nid), nid)

\* The two early returns: None, and a primitive as it is
IsPassedThrough(input_data) == input_data = None \/ IsPrimitive(input_data)

ReturnOneOf(cls, input_data, cl, nid) ==
    IF IsPassedThrough(input_data) THEN ReturnedCl(input_data, cl)
    ELSE ResolveFrom(DictValues(ClassListOf(cls, cl)), 1, input_data, cls, cl, nid)

(***************************************************************************)
(* BaseModel._define_object                                                *)
(***************************************************************************)
DefineObject(input_data, input_class, cl, nid) ==
    IF input_data = None THEN ReturnedCl(None, cl)
    ELSE IF IsInstance(input_data, input_class) THEN ReturnedCl(input_data, cl)
    ELSE Unmap(input_class, input_data, cl, nid)

(***************************************************************************)
(* BaseModel._define_list                                                  *)
(***************************************************************************)
\* hasattr(list_class, "__args__") and len(list_class.__args__) > 0
HasArgs(list_class) == list_class.kind \in {"union", "generic"} /\ Len(list_class.args) > 0

\* self._enum_matching(item, list_class.list(), list_class.__name__)
EnumItem(r, cl) == IF r.raised THEN RaisedCl(r.err, cl) ELSE ReturnedCl(r.val, cl)

\* One turn of the loop over input_data
DefineListItem(item, list_class, cl, nid) ==
    IF HasArgs(list_class)
    THEN ReturnOneOf("OneOfBaseModel", item, CreateClassMap(list_class), nid)
    ELSE IF list_class.kind = "enumcls"
    THEN EnumItem(EnumMatching(item, list_class.args, list_class.name), cl)
    ELSE IF IsInstance(item, list_class.cls) THEN ReturnedCl(item, cl)
    ELSE IF item.kind = "dict" THEN Unmap(list_class.cls, item, cl, nid)
    ELSE DirectConstruct(list_class.cls, item, cl, nid)

\* The loop after element n gave r
DefineListNext(items, n, built, list_class, r, nid) ==
    IF r.raised THEN RaisedCl(r.err, r.cl)
    ELSE DefineListFrom(items, n + 1, Append(built, r.val), list_class, r.cl, nid)

DefineListFrom(items, n, built, list_class, cl, nid) ==
    IF n > Len(items) THEN ReturnedCl(ListV(nid, built), cl)
    ELSE DefineListNext(items, n, built, list_class,
                        DefineListItem(items[n], list_class, cl, nid), nid)

\* input_data is None, a list, or something that cannot be iterated
DefineList(input_data, list_class, cl, nid) ==
    IF input_data = None THEN ReturnedCl(None, cl)
    ELSE IF input_data.kind # "list" THEN RaisedCl(OtherError("iter"), cl)
    ELSE DefineListFrom(input_data.items, 1, <<>>, list_class, cl, nid)

(***************************************************************************)
(* Inputs                                                                  *)
(***************************************************************************)
one == IntV(<<"1">>)
two == IntV(<<"2">>)
three == IntV(<<"3">>)
on == <<"o", "n">>
off == <<"o", "f", "f">>

D_xy == Dict([x |-> one, y |-> two])
D_xyz == Dict([x |-> one, y |-> two, z |-> three])
D_xyNull == Dict([x |-> one, y |-> two, z |-> None])
D_x == Dict([x |-> one])
D_y == Dict([y |-> two])
D_xw == Dict([x |-> one, w |-> two])
\* a mapping whose "items" the constructor of N resolves against Union[C, M]
D_items_x == Dict([x |-> one, items |-> ListV(0, <<D_x>>)])
D_items_y == Dict([x |-> one, items |-> ListV(0, <<D_y>>)])
D_items_y_z == Dict([x |-> one, items |-> ListV(0, <<D_y>>), z |-> three])

I_A == Inst(0, "A", [x |-> one, y |-> two])
I_B == Inst(0, "B", [x |-> one, y |-> two, z |-> None])
I_C == Inst(0, "C", [x |-> one])
I_P == Inst(0, "P", [x |-> one, items |-> None])

U_AB == Union(<<Class("A"), Class("B")>>)
U_BA == Union(<<Class("B"), Class("A")>>)
U_NP == Union(<<Class("N"), Class("P")>>)
U_CM == Union(<<Class("C"), Class("M")>>)
U_CBCx == Union(<<Class("C"), Class("B"), Class("Cx")>>)
U_LCL == Union(<<ListOf("A"), Class("C"), ListOf("B")>>)
Status == EnumClass("Status", <<StrV(on), StrV(off)>>)

Unions == {U_AB, U_BA, U_NP, U_CM, U_CBCx, U_LCL}

\* The elements the lists given to _define_list are made of, per element spec
ItemsFor(list_class) ==
    CASE list_class \in {U_AB, U_BA} -> {None, D_xy, D_xyz, D_xyNull, I_B}
      [] list_class = U_NP -> {D_items_x, D_items_y, D_items_y_z, D_x}
      [] list_class = U_CM -> {D_x, D_y, I_C, StrV(on)}
      [] list_class = U_CBCx -> {D_xyz, D_xy, D_x}
      [] list_class = U_LCL -> {ListV(0, <<D_xy>>), ListV(0, <<I_A>>), ListV(0, <<>>), D_x}
      [] list_class = Status -> {None, StrV(on), StrV(<<"z">>), EnumV("Status", off)}
      [] list_class = Class("A") -> {I_A, I_B, D_xy, D_y, one}
      [] list_class = Class("N") -> {D_items_x, D_items_y, one}

Call(op, input, arg) == [op |-> op, input |-> input, arg |-> arg]

Patterns == {<<>>, <<"a">>, <<"a", "$">>, <<".", "b">>, <<"b", ".", "$">>}

PatternCalls ==
    {Call("pattern_matching", value, pattern) :
        value \in {None} \cup {StrV(s) : s \in SeqsUpTo({"a", "b"}, MaxLen)},
        pattern \in Patterns}

EnumCalls ==
    {Call("enum_matching", value, enum_values) :
        value \in {None, StrV(on), StrV(<<"z">>), one, EnumV("Status", on),
                   EnumV("Status", off), EnumV("Other", <<"z">>)},
        enum_values \in SeqsUpTo({StrV(on), StrV(off)}, MaxLen)}

ObjectCalls ==
    {Call("define_object", input_data, input_class) :
        input_data \in {None, I_A, I_B, I_C, D_xy, D_y, D_items_x, D_items_y, one},
        input_class \in {"A", "B", "N"}}

ListCalls ==
    UNION {{Call("define_list", None, list_class)} \cup
           {Call("define_list", ListV(0, items), list_class) :
                items \in SeqsUpTo(ItemsFor(list_class), MaxLen)} :
           list_class \in Unions \cup {Status, Class("A"), Class("N")}}

OneOfCalls ==
    {Call("return_one_of", input_data, cls) :
        input_data \in {None, StrV(on), one, BytesV(<<"a">>), EnumV("Status", on),
                        D_xy, D_xyz, D_x, D_y, D_xw, I_A, I_B, I_C, I_P}
                       \cup {ListV(0, items) : items \in SeqsUpTo({I_A, I_B, D_xy, D_x}, MaxLen)},
        cls \in {"OneOfBaseModel", "GuardEmpty", "GuardLists", "GuardModels"}}

\* What an earlier _define_list may have left in OneOfBaseModel.class_list
PriorClassLists == {<<>>, CreateClassMap(U_CM), CreateClassMap(U_AB)}

\* The two concurrent _define_list calls
ConcCalls ==
    {Call("define_list", ListV(0, items), list_class) :
        items \in SeqsUpTo({D_xy, D_x, D_y}, MaxLen) \ {<<>>},
        list_class \in {U_AB, U_CM}}

(***************************************************************************)
(* Initial states: each thread is about to run one call.  The objects of   *)
(* the input get ids of their own; heap counts the ids in use.             *)
(***************************************************************************)
IdsPerThread == MaxLen + 2

StampInput(v, base) ==
    IF v.kind = "list"
    THEN ListV(base + 1, [j \in 1..Len(v.items) |-> Stamp(v.items[j], base + 1 + j)])
    ELSE Stamp(v, base + 1)

InitWith(calls, cl) ==
    /\ call = [t \in DOMAIN calls |->
                 [calls[t] EXCEPT !.input = StampInput(@, (t - 1) * IdsPerThread)]]
    /\ class_list = cl
    /\ heap = Len(calls) * IdsPerThread
    /\ pc = [t \in DOMAIN calls |-> "start"]
    /\ i = [t \in DOMAIN calls |-> 0]
    /\ result = [t \in DOMAIN calls |-> <<>>]
    /\ cands = [t \in DOMAIN calls |-> <<>>]
    /\ k = [t \in DOMAIN calls |-> 0]
    /\ tried = [t \in DOMAIN calls |-> <<>>]
    /\ ret = [t \in DOMAIN calls |-> None]
    /\ err = [t \in DOMAIN calls |-> NoError]

Init ==
    \E cl \in PriorClassLists :
        \/ \E c \in PatternCalls : InitWith(<<c>>, cl)
        \/ \E c \in EnumCalls : InitWith(<<c>>, cl)
        \/ \E c \in ObjectCalls : InitWith(<<c>>, cl)
        \/ \E c \in ListCalls : InitWith(<<c>>, cl)
        \/ \E c \in OneOfCalls : InitWith(<<c>>, cl)

InitConc ==
    \E c1 \in ConcCalls, c2 \in ConcCalls :
        /\ c1.arg # c2.arg
        /\ InitWith(<<c1, c2>>, <<>>)

(***************************************************************************)
(* Steps                                                                   *)
(***************************************************************************)
\* At most two threads run; Running is the set of those the state holds
Threads == {1, 2}
Running == DOMAIN pc

\* The class return_one_of runs on and its argument: _define_list calls
\* OneOfBaseModel.return_one_of(item)
OneOfCls(t) == IF call[t].op = "define_list" THEN "OneOfBaseModel" ELSE call[t].arg
OneOfInput(t) ==
    IF call[t].op = "define_list" THEN call[t].input.items[i[t]] ELSE call[t].input

\* A loop that reads cls.class_list anew at every turn
CandidatesLive(t) == DictValues(ClassListOf(OneOfCls(t), class_list))

\* The view the for loop of return_one_of iterates: taken once, when the loop starts
Candidates(t) == cands[t]

\* The call of thread t ends
Finish(t, o) ==
    /\ pc' = [pc EXCEPT ![t] = IF o.raised THEN "raised" ELSE "returned"]
    /\ ret' = [ret EXCEPT ![t] = o.val]
    /\ err' = [err EXCEPT ![t] = o.err]

FinishCl(t, o) == Finish(t, o) /\ class_list' = o.cl

\* return_one_of returns v: to _define_list's loop, or to the caller
OneOfReturns(t, v) ==
    IF call[t].op = "define_list"
    THEN /\ result' = [result EXCEPT ![t] = Append(@, v)]
         /\ i' = [i EXCEPT ![t] = @ + 1]
         /\ pc' = [pc EXCEPT ![t] = "item"]
         /\ UNCHANGED ret
    ELSE /\ ret' = [ret EXCEPT ![t] = v]
         /\ pc' = [pc EXCEPT ![t] = "returned"]
         /\ UNCHANGED <<result, i>>

PatternMatchingCall(t) ==
    /\ t \in Running
    /\ pc[t] = "start" /\ call[t].op = "pattern_matching"
    /\ Finish(t, PatternMatching(call[t].input, call[t].arg, "field"))
    /\ UNCHANGED <<class_list, heap, call, i, result, cands, k, tried>>

EnumMatchingCall(t) ==
    /\ t \in Running
    /\ pc[t] = "start" /\ call[t].op = "enum_matching"
    /\ Finish(t, EnumMatching(call[t].input, call[t].arg, "field"))
    /\ UNCHANGED <<class_list, heap, call, i, result, cands, k, tried>>

DefineObjectCall(t) ==
    /\ t \in Running
    /\ pc[t] = "start" /\ call[t].op = "define_object"
    /\ FinishCl(t, DefineObject(call[t].input, call[t].arg, class_list, heap + 1))
    /\ heap' = heap + 1
    /\ UNCHANGED <<call, i, result, cands, k, tried>>

\* _define_list up to its loop
DefineListStart(t) ==
    /\ t \in Running
    /\ pc[t] = "start" /\ call[t].op = "define_list"
    /\ IF call[t].input = None
       THEN /\ Finish(t, Returned(None))
            /\ UNCHANGED <<i, result>>
       ELSE /\ pc' = [pc EXCEPT ![t] = "item"]
            /\ i' = [i EXCEPT ![t] = 1]
            /\ result' = [result EXCEPT ![t] = <<>>]
            /\ UNCHANGED <<ret, err>>
    /\ UNCHANGED <<class_list, heap, call, cands, k, tried>>

\* The loop's first branch up to the call: the class map is built and stored
DefineListUnionItem(t) ==
    /\ t \in Running
    /\ pc[t] = "item" /\ i[t] <= Len(call[t].input.items)
    /\ HasArgs(call[t].arg)
    /\ class_list' = CreateClassMap(call[t].arg)
    /\ pc' = [pc EXCEPT ![t] = "call"]
    /\ UNCHANGED <<heap, call, i, result, cands, k, tried, ret, err>>

\* result.append(...), unless the element's branch raised
ItemDone(t, o) ==
    /\ class_list' = o.cl
    /\ IF o.raised
       THEN Finish(t, o) /\ UNCHANGED <<i, result>>
       ELSE /\ result' = [result EXCEPT ![t] = Append(@, o.val)]
            /\ i' = [i EXCEPT ![t] = @ + 1]
            /\ UNCHANGED <<pc, ret, err>>

\* The loop's other branches
DefineListPlainItem(t) ==
    /\ t \in Running
    /\ pc[t] = "item" /\ i[t] <= Len(call[t].input.items)
    /\ ~HasArgs(call[t].arg)
    /\ ItemDone(t, DefineListItem(call[t].input.items[i[t]], call[t].arg, class_list, heap + 1))
    /\ heap' = heap + 1
    /\ UNCHANGED <<call, cands, k, tried>>

\* return result
DefineListReturn(t) ==
    /\ t \in Running
    /\ pc[t] = "item" /\ i[t] > Len(call[t].input.items)
    /\ Finish(t, Returned(ListV(heap + 1, result[t])))
    /\ heap' = heap + 1
    /\ UNCHANGED <<class_list, call, i, result, cands, k, tried>>

\* return_one_of up to its loop
ReturnOneOfEnter(t) ==
    /\ t \in Running
    /\ pc[t] = IF call[t].op = "return_one_of" THEN "start" ELSE "call"
    /\ call[t].op \in {"return_one_of", "define_list"}
    /\ IF IsPassedThrough(OneOfInput(t))
       THEN /\ OneOfReturns(t, OneOfInput(t))
            /\ UNCHANGED <<cands, k, tried>>
       ELSE /\ cands' = [cands EXCEPT ![t] = DictValues(ClassListOf(OneOfCls(t), class_list))]
            /\ k' = [k EXCEPT ![t] = 1]
            /\ tried' = [tried EXCEPT ![t] = <<>>]
            /\ pc' = [pc EXCEPT ![t] = "loop"]
            /\ UNCHANGED <<i, result, ret>>
    /\ UNCHANGED <<class_list, heap, call, err>>

\* What the loop does with the outcome r of one candidate
Tried(t, r) ==
    /\ class_list' = r.cl
    /\ CASE r.res = "return" ->
              OneOfReturns(t, r.val) /\ UNCHANGED <<k, err>>
         [] r.res = "next" ->
              /\ k' = [k EXCEPT ![t] = @ + 1]
              /\ UNCHANGED <<pc, i, result, ret, err>>
         [] r.res = "raise" ->
              /\ pc' = [pc EXCEPT ![t] = "raised"]
              /\ err' = [err EXCEPT ![t] = r.err]
              /\ UNCHANGED <<k, i, result, ret>>

\* One turn of return_one_of's loop
TryCandidate(t) ==
    /\ t \in Running
    /\ pc[t] = "loop" /\ k[t] <= Len(Candidates(t))
    /\ Tried(t, TryOne(Candidates(t)[k[t]], OneOfInput(t), class_list, heap + 1))
    /\ tried' = [tried EXCEPT ![t] = Append(@, Candidates(t)[k[t]])]
    /\ heap' = heap + 1
    /\ UNCHANGED <<call, cands>>

\* The loop is over: raise ValueError(... list(cls.class_list.keys()))
RaiseNoMatch(t) ==
    /\ t \in Running
    /\ pc[t] = "loop" /\ k[t] > Len(Candidates(t))
    /\ pc' = [pc EXCEPT ![t] = "raised"]
    /\ err' = [err EXCEPT ![t] =
                 ValueError("one_of", DictKeys(ClassListOf(OneOfCls(t), class_list)))]
    /\ UNCHANGED <<class_list, heap, call, i, result, cands, k, tried, ret>>

Next ==
    \E t \in Threads :
        \/ PatternMatchingCall(t)
        \/ EnumMatchingCall(t)
        \/ DefineObjectCall(t)
        \/ DefineListStart(t)
        \/ DefineListUnionItem(t)
        \/ DefineListPlainItem(t)
        \/ DefineListReturn(t)
        \/ ReturnOneOfEnter(t)
        \/ TryCandidate(t)
        \/ RaiseNoMatch(t)

Spec == Init /\ [][Next]_vars

\* Two threads, each in _define_list on a list of a union of its own
NextConc ==
    \E t \in Threads :
        \/ DefineListStart(t)
        \/ DefineListUnionItem(t)
        \/ DefineListReturn(t)
        \/ ReturnOneOfEnter(t)
        \/ TryCandidate(t)
        \/ RaiseNoMatch(t)

SpecConc == InitConc /\ [][NextConc]_vars

(***************************************************************************)
(* Properties                                                              *)
(***************************************************************************)
Done(t) == pc[t] \in {"returned", "raised"}
IsUnionList(t) == call[t].op = "define_list" /\ HasArgs(call[t].arg)
IsOneOf(t) == call[t].op = "return_one_of" \/ IsUnionList(t)
\* The candidates of the union a _define_list call was given, as its class map holds them
OwnCandidates(t) == DictValues(CreateClassMap(call[t].arg))
\* What the running (or last) return_one_of of thread t returned
OneOfResult(t) ==
    IF call[t].op = "define_list" THEN result[t][Len(result[t])] ELSE ret[t]
SameMapping(item, d) == item.kind = "dict" /\ item.m = d.m

\* C1 as claimed: with candidates A (x, y) and B (x, y, optional z), in either
\* declared order, the mapping {x: 1, y: 2} always resolves to an instance of A.
C1_AlwaysSelectsA ==
    \A t \in Running :
        (call[t].op = "define_list" /\ call[t].arg \in {U_AB, U_BA}) =>
            \A n \in 1..Len(result[t]) :
                SameMapping(call[t].input.items[n], D_xy) =>
                    result[t][n].kind = "inst" /\ result[t][n].cls = "A"

\* C1 as amended: {x: 1, y: 2} resolves to an instance of the candidate declared
\* first: A under Union[A, B], and B with z null under Union[B, A].
C1_SelectsFirstDeclared ==
    \A t \in Running :
        (call[t].op = "define_list" /\ call[t].arg \in {U_AB, U_BA}) =>
            \A n \in 1..Len(result[t]) :
                SameMapping(call[t].input.items[n], D_xy) =>
                    /\ result[t][n].kind = "inst"
                    /\ result[t][n].cls = call[t].arg.args[1].cls
                    /\ result[t][n].f["x"] = one /\ result[t][n].f["y"] = two
                    /\ (result[t][n].cls = "B" => result[t][n].f["z"] = None)

C1_Witness ==
    \E t \in Running :
        /\ call[t].op = "define_list" /\ call[t].arg = U_BA
        /\ Len(result[t]) >= 1
        /\ SameMapping(call[t].input.items[1], D_xy)
        /\ result[t][1].cls = "B"

\* A candidate accepts a mapping: its constructor succeeds and the instance has as
\* many non-null fields as the mapping has non-null keys
Accepts(ty, item) ==
    /\ ty.kind = "class"
    /\ Required(ty.cls) \subseteq DOMAIN item.m
    /\ ClassDef(ty.cls).listField = ""
    /\ ClassDef(ty.cls).hasMap
    /\ Cardinality(NonNull(item.m)) =
          Cardinality({f \in Fields(ty.cls) \cap DOMAIN item.m : item.m[f] # None})

\* C2: the candidate map _define_list builds from a union iterates in the union's
\* declaration order, and a mapping element resolves to the instance built by the
\* first member of the union, in declaration order, that accepts it.
C2_DeclaredOrder ==
    \A t \in Running :
        IsUnionList(t) =>
            /\ pc[t] = "loop" => cands[t] = call[t].arg.args
            /\ \A n \in 1..Len(result[t]) :
                  \A j \in 1..Len(call[t].arg.args) :
                      (/\ call[t].input.items[n].kind = "dict"
                       /\ Accepts(call[t].arg.args[j], call[t].input.items[n])
                       /\ \A h \in 1..(j - 1) :
                             /\ call[t].arg.args[h].kind = "class"
                             /\ ClassDef(call[t].arg.args[h].cls).listField = ""
                             /\ ~Accepts(call[t].arg.args[h], call[t].input.items[n]))
                      => result[t][n].cls = call[t].arg.args[j].cls

\* The keys of the candidate map a return_one_of call was given
GivenNames(t) ==
    DictKeys(IF call[t].op = "define_list" THEN CreateClassMap(call[t].arg)
             ELSE IF call[t].arg = "OneOfBaseModel" THEN class_list
             ELSE GuardClassList(call[t].arg))

\* C3: when no candidate accepts the input, the error lists the names of exactly
\* the candidates this resolution iterated over, in order.
C3_ErrorListsTriedCandidates ==
    \A t \in Running :
        (IsOneOf(t) /\ pc[t] = "raised" /\ err[t].what = "one_of") =>
            /\ Len(err[t].names) = Len(tried[t])
            /\ err[t].names = GivenNames(t)

\* C4: under every interleaving of two _define_list calls on different unions,
\* each element is resolved against the candidates of its own list's union, and
\* a failure names those candidates.
C4_ConcurrentIsolation ==
    \A t \in Running :
        IsUnionList(t) =>
            /\ pc[t] = "loop" => cands[t] = OwnCandidates(t)
            /\ (pc[t] = "raised" /\ err[t].what = "one_of") =>
                  err[t].names = DictKeys(CreateClassMap(call[t].arg))

\* C5: an input that is an instance of one of the candidate classes comes back
\* as the very same object, wherever that candidate stands; and resolving what a
\* resolution returned again, against the same candidates, returns it unchanged.
C5_Idempotent ==
    \A t \in Running :
        /\ (/\ call[t].op = "return_one_of" /\ Done(t)
            /\ \E j \in 1..Len(ClassListOf(call[t].arg, class_list)) :
                  /\ ClassListOf(call[t].arg, class_list)[j].val.kind = "class"
                  /\ IsInstance(call[t].input, ClassListOf(call[t].arg, class_list)[j].val.cls))
           => (pc[t] = "returned" /\ ret[t] = call[t].input)
        /\ IsUnionList(t) =>
              \A n \in 1..Len(result[t]) :
                  (\E j \in 1..Len(OwnCandidates(t)) :
                      /\ OwnCandidates(t)[j].kind = "class"
                      /\ IsInstance(call[t].input.items[n], OwnCandidates(t)[j].cls))
                  => result[t][n] = call[t].input.items[n]
        /\ (call[t].op = "return_one_of" /\ pc[t] = "returned" /\ ~IsPassedThrough(ret[t]))
           => ResolveFrom(cands[t], 1, ret[t], call[t].arg, class_list, heap + 1)
                 = ReturnedCl(ret[t], class_list)

C5_Witness ==
    \E t \in Running :
        /\ call[t].op = "return_one_of" /\ pc[t] = "returned"
        /\ call[t].input.kind = "inst" /\ ret[t] = call[t].input
        /\ Len(tried[t]) >= 3
        /\ IsInstance(call[t].input, tried[t][Len(tried[t])].cls)

\* C6: a null input makes each of the five operations return null at once, with
\* no exception and no write of class_list.
C6_NullPassthrough ==
    [][\A t \in Running :
          /\ (pc[t] = "start" /\ call[t].input = None /\ pc'[t] # "start") =>
                /\ pc'[t] = "returned" /\ ret'[t] = None /\ err'[t] = NoError
                /\ class_list' = class_list
          /\ (pc[t] = "call" /\ OneOfInput(t) = None /\ pc'[t] # "call") =>
                /\ pc'[t] = "item" /\ result'[t] = Append(result[t], None)
                /\ class_list' = class_list]_vars

C6_Witness ==
    \E t \in Running :
        /\ pc[t] = "returned" /\ call[t].input = None /\ ret[t] = None
        /\ call[t].op = "return_one_of" /\ call[t].arg = "GuardEmpty"
        /\ class_list # <<>>

\* The string a value stands for in an enum check is one of the allowed ones
IsAllowed(value, allowed) ==
    /\ value.kind = "enum" \/ (value.kind = "prim" /\ value.ty = "str")
    /\ \E j \in 1..Len(allowed) : allowed[j].v = value.v

\* C7: if the underlying string of a non-null value is allowed, _enum_matching
\* returns the value itself, a member as a member and a string as a string;
\* otherwise it raises ValueError and returns nothing.
C7_EnumMatching ==
    \A t \in Running :
        (call[t].op = "enum_matching" /\ Done(t) /\ call[t].input # None) =>
            IF IsAllowed(call[t].input, call[t].arg)
            THEN pc[t] = "returned" /\ ret[t] = call[t].input
            ELSE pc[t] = "raised" /\ ret[t] = None /\ err[t].type = "ValueError"

C7_Witness ==
    \E t \in Running :
        /\ call[t].op = "enum_matching" /\ pc[t] = "returned"
        /\ call[t].input.kind = "enum" /\ ret[t].kind = "enum"

\* C8: return_one_of either returns, or raises the one total-failure ValueError
\* after every candidate was tried in order; a candidate's own exception never
\* leaves the call.
C8_OnlyTotalFailure ==
    \A t \in Running :
        IsOneOf(t) =>
            /\ pc[t] = "loop" =>
                  /\ k[t] = Len(tried[t]) + 1
                  /\ tried[t] = SubSeq(cands[t], 1, Len(tried[t]))
            /\ pc[t] = "raised" =>
                  /\ err[t].type = "ValueError" /\ err[t].what = "one_of"
                  /\ tried[t] = cands[t]

\* Candidates failed by the type-hint instance check, by the constructor, and by
\* the to-mapping projection, before the total failure
C8_Witness ==
    \E t \in Running :
        /\ call[t].op = "return_one_of" /\ pc[t] = "raised"
        /\ call[t].input.kind = "dict" /\ DOMAIN call[t].input.m = {"y"}
        /\ \E j \in 1..Len(tried[t]) : tried[t][j] = Class("M")
        /\ \E j \in 1..Len(tried[t]) : tried[t][j] = Class("A")

\* The current candidate of thread t is List[T] and the input is a list
AtListCandidate(t) ==
    /\ IsOneOf(t) /\ pc[t] = "loop" /\ k[t] <= Len(cands[t])
    /\ cands[t][k[t]].kind = "generic" /\ cands[t][k[t]].origin = "list"
    /\ Len(cands[t][k[t]].args) = 1
    /\ OneOfInput(t).kind = "list"

Constructible(c, item) == item.kind = "dict" /\ Required(c) \subseteq DOMAIN item.m

\* C9: at a candidate List[T] with a list input: if every element is an instance
\* of T the input list itself is returned; otherwise, if T's mapping constructor
\* builds every element, a new list of those instances, same length and order, is
\* returned; otherwise the loop goes on to the next candidate and nothing is raised.
C9_ListCandidate ==
    [][\A t \in Running :
          (AtListCandidate(t) /\ tried'[t] # tried[t]) =>
             LET T == cands[t][k[t]].args[1]
                 xs == OneOfInput(t).items
             IN IF \A n \in 1..Len(xs) : IsInstance(xs[n], T)
                THEN pc'[t] # "raised" /\ OneOfResult(t)' = OneOfInput(t)
                ELSE IF \A n \in 1..Len(xs) : Constructible(T, xs[n])
                THEN /\ pc'[t] \in {"returned", "item"}
                     /\ OneOfResult(t)'.kind = "list"
                     /\ OneOfResult(t)'.id > heap
                     /\ Len(OneOfResult(t)'.items) = Len(xs)
                     /\ \A n \in 1..Len(xs) :
                           /\ OneOfResult(t)'.items[n].kind = "inst"
                           /\ OneOfResult(t)'.items[n].cls = T
                           /\ \A f \in Fields(T) :
                                 OneOfResult(t)'.items[n].f[f] =
                                    IF f \in DOMAIN xs[n].m THEN xs[n].m[f] ELSE None
                ELSE pc'[t] = "loop" /\ k'[t] = k[t] + 1 /\ err'[t] = NoError]_vars

C9_Witness ==
    \E t \in Running :
        /\ call[t].op = "return_one_of" /\ pc[t] = "returned"
        /\ call[t].input.kind = "list" /\ Len(call[t].input.items) = MaxLen
        /\ ret[t].kind = "list" /\ ret[t].id # call[t].input.id
        /\ Len(tried[t]) = 3
        /\ \A n \in 1..Len(ret[t].items) : ret[t].items[n].cls = "C"

\* C10: in one thread, a constructor that runs _define_list on another union while
\* an outer return_one_of is iterating leaves the outer iteration alone: the outer
\* call tries its own union's candidates, each once and in order, its result is
\* the one the resolution over those candidates alone gives, and every later
\* element is again resolved against the outer union's candidates.
C10_Reentrant ==
    \A t \in Running :
        IsUnionList(t) =>
            /\ pc[t] = "loop" =>
                  /\ cands[t] = OwnCandidates(t)
                  /\ tried[t] = SubSeq(OwnCandidates(t), 1, k[t] - 1)
            /\ (pc[t] = "raised" /\ err[t].what = "one_of") => tried[t] = OwnCandidates(t)
            /\ \A n \in 1..Len(result[t]) :
                  ReturnOneOf("OneOfBaseModel", call[t].input.items[n],
                              CreateClassMap(call[t].arg),
                              IF HasId(result[t][n]) THEN result[t][n].id ELSE 0).val
                     = result[t][n]

\* The first element's first candidate N ran a nested resolution that overwrote
\* class_list and failed; the second candidate P was selected, and the second
\* element was resolved too
C10_Witness ==
    \E t \in Running :
        /\ call[t].op = "define_list" /\ call[t].arg = U_NP
        /\ Len(result[t]) = MaxLen
        /\ SameMapping(call[t].input.items[1], D_items_y)
        /\ result[t][1].kind = "inst" /\ result[t][1].cls = "P"
        /\ result[t][2].kind = "inst"

====
